---- MODULE Spec2Model ----
(***************************************************************************)
(* Capacity / allocation accounting of the engineering-resource-management *)
(* client: the dashboards that derive allocated / available capacity and   *)
(* over-allocation flags from the loaded collections, and the assignments  *)
(* form (capacity lookup, validation, create / update / delete) working    *)
(* against the REST backend.                                               *)
(*                                                                         *)
(* Dates.  A date string of day d is the number d (NoDate is the empty     *)
(* string); parseISO / new Date turn it into an instant, TicksPerDay       *)
(* instants to a day, and the clock `now` is an instant.                   *)
(***************************************************************************)
EXTENDS Integers, Sequences, FiniteSets, TLC

\* ---------------------------------------------------------------- bounds
MaxDay == 2
TicksPerDay == 2
MaxAssignments == 2
MaxLookups == 1
MaxCalls == 1
MaxListLen == 3

\* ------------------------------------------------------------ value sets
NoDate == 0
NaN == 0 - 1
Days == 1..MaxDay
DateInputs == {NoDate} \cup Days
Instants == 0..((MaxDay + 1) * TicksPerDay - 1)
EngineerIds == {"e1", "e2"}
CapacityValues == {0, 50, 100}
AllocationValues == {50, 60}
CurrentAllocationValues == {0, 50, 110}

Max(a, b) == IF a >= b THEN a ELSE b

RECURSIVE SumSeq(_)
SumSeq(s) == IF s = <<>> THEN 0 ELSE Head(s) + SumSeq(Tail(s))

Range(s) == {s[i] : i \in 1..Len(s)}

Ids(s) == {x._id : x \in Range(s)}

\* ------------------------------------------------------------- variables
VARIABLES
  now,            \* new Date(): the current instant
  authUser,       \* authState.user
  state,          \* AppContext's reducer state (AppState)
  view,           \* what the page rendered last computed
  srvAssignments, \* the backend's assignment records
  nextId,         \* the backend's next assignment _id
  formValues,     \* the react-hook-form values the page watches
  capacityInfo,   \* AssignmentsPage capacityInfo
  isCreateDialogOpen,
  isEditDialogOpen,
  editingAssignment,
  lookups,        \* getEngineerCapacity calls awaiting their response
  loads,          \* loadAssignments / loadEngineers calls of the page's mount
  submitCall,     \* the onSubmit in progress (isSubmitting), or Null
  deleteCalls,    \* the handleDeleteAssignment calls in progress
  lastSubmit,     \* what the latest submit or settled mutation call did
  authState,      \* AuthContext's reducer state (AuthState)
  localStorage,   \* auth_token and user_data
  location,       \* the router's current path
  authCalls,      \* getProfile / login requests awaiting their response
  startup,        \* the provider's mount: token found, initializeAuth run
  reloadPending,  \* window.location.href was assigned
  peers           \* the create forms of concurrent manager sessions

srvVars == <<srvAssignments, nextId>>
pageVars == <<formValues, capacityInfo, isCreateDialogOpen, isEditDialogOpen,
              editingAssignment, lookups, loads, submitCall, deleteCalls,
              lastSubmit>>
sessionVars == <<authState, localStorage, location, authCalls, startup,
                 reloadPending>>
vars == <<now, authUser, state, view, srvVars, pageVars, sessionVars, peers>>

Null == [isNull |-> TRUE]

\* ------------------------------------------------------ lib/utils (dates)
\* parseISO(date): the instant at which day `date` begins.
parseISO(date) == date * TicksPerDay

isAfter(date, dateToCompare) == date > dateToCompare
isBefore(date, dateToCompare) == date < dateToCompare

isDateInRange(startDate, endDate) ==
  isAfter(now, parseISO(startDate)) /\ isBefore(now, parseISO(endDate))

\* (a / b) * 100 of two non-negative integers, kept as the exact fraction
\* num / den; den = 0 is Infinity (num > 0) or NaN (num = 0), as in IEEE.
\* For 0 <= a <= 200 and 0 < b <= 100 the double result compares with the
\* thresholds 60, 80 and 100 exactly as the fraction does.
Percent(a, b) == [num |-> a * 100, den |-> b]
Number(n) == [num |-> n, den |-> 1]
GT(u, t) == IF u.den = 0 THEN u.num > 0 ELSE u.num > t * u.den
GE(u, t) == IF u.den = 0 THEN u.num > 0 ELSE u.num >= t * u.den

getCapacityColor(utilizationPercentage) ==
  IF GE(utilizationPercentage, 100) THEN "red"
  ELSE IF GE(utilizationPercentage, 80) THEN "orange"
  ELSE IF GE(utilizationPercentage, 60) THEN "green"
  ELSE "blue"

\* ----------------------------------------------------- EngineerDashboard
\* x || 100 for a number x: 0 (and undefined) are falsy.
OrDefault(x, d) == IF x = 0 THEN d ELSE x

userId == authUser._id

myAssignments == SelectSeq(state.assignments, LAMBDA a : a.engineerId = userId)

activeAssignments ==
  SelectSeq(myAssignments, LAMBDA a : isDateInRange(a.startDate, a.endDate))

currentWorkload ==
  SumSeq([i \in 1..Len(activeAssignments) |->
            activeAssignments[i].allocationPercentage])

maxCapacity == OrDefault(authUser.maxCapacity, 100)

availableCapacity == Max(0, maxCapacity - currentWorkload)

RenderEngineerDashboard ==
  /\ authUser.role = "engineer"
  /\ view' = [page |-> "EngineerDashboard",
              active |-> Ids(activeAssignments),
              currentWorkload |-> currentWorkload,
              maxCapacity |-> maxCapacity,
              availableCapacity |-> availableCapacity,
              color |-> getCapacityColor(Percent(currentWorkload, maxCapacity))]
  /\ UNCHANGED <<sessionVars, peers, now, authUser, state, srvVars, pageVars>>

\* --------------------------------------------------------- EngineersPage
\* engineer.currentAllocation ? (currentAllocation / maxCapacity) * 100 : 0
EngineersPageUtilization(engineer) ==
  IF engineer.currentAllocation # 0
    THEN Percent(engineer.currentAllocation, engineer.maxCapacity)
    ELSE Number(0)

EngineersPageLabel(utilizationPercentage) ==
  IF GT(utilizationPercentage, 100) THEN "Over-allocated"
  ELSE IF GT(utilizationPercentage, 80) THEN "High utilization"
  ELSE IF GT(utilizationPercentage, 60) THEN "Good utilization"
  ELSE "Available"

EngineersPageAvailable(engineer) ==
  engineer.maxCapacity - engineer.currentAllocation

EngineersPageCard(engineer) ==
  LET utilizationPercentage == EngineersPageUtilization(engineer)
  IN [_id |-> engineer._id,
      color |-> getCapacityColor(utilizationPercentage),
      label |-> EngineersPageLabel(utilizationPercentage),
      available |-> EngineersPageAvailable(engineer)]

RenderEngineersPage ==
  /\ authUser.role = "manager"
  /\ view' = [page |-> "EngineersPage",
              cards |-> [i \in 1..Len(state.engineers) |->
                          EngineersPageCard(state.engineers[i])]]
  /\ UNCHANGED <<sessionVars, peers, now, authUser, state, srvVars, pageVars>>

\* ------------------------------------------------------ ManagerDashboard
\* e.currentAllocation && e.currentAllocation > e.maxCapacity
ManagerDashboardIsOver(e) ==
  e.currentAllocation # 0 /\ e.currentAllocation > e.maxCapacity

overAllocatedEngineers ==
  Len(SelectSeq(state.engineers, ManagerDashboardIsOver))

RenderManagerDashboard ==
  /\ authUser.role = "manager"
  /\ view' = [page |-> "ManagerDashboard",
              overAllocatedEngineers |-> overAllocatedEngineers,
              flagged |-> Ids(SelectSeq(state.engineers, ManagerDashboardIsOver))]
  /\ UNCHANGED <<sessionVars, peers, now, authUser, state, srvVars, pageVars>>

\* --------------------------------------------------------- AnalyticsPage
utilizationAnalysisEntry(engineer) ==
  LET currentAllocation == engineer.currentAllocation
  IN [_id |-> engineer._id,
      utilization |-> Percent(currentAllocation, engineer.maxCapacity),
      capacity |-> engineer.maxCapacity,
      allocated |-> currentAllocation,
      available |-> engineer.maxCapacity - currentAllocation]

utilizationAnalysis ==
  [i \in 1..Len(state.engineers) |-> utilizationAnalysisEntry(state.engineers[i])]

kpisIsOver(eng) == GT(eng.utilization, 100)

kpisOverAllocatedEngineers == Len(SelectSeq(utilizationAnalysis, kpisIsOver))

\* analyticsData is null until engineers, projects and assignments are
\* loaded.
RenderAnalyticsPage ==
  /\ authUser.role = "manager"
  /\ Len(state.engineers) > 0 /\ Len(state.projects) > 0
  /\ Len(state.assignments) > 0
  /\ view' = [page |-> "AnalyticsPage",
              utilizationAnalysis |-> utilizationAnalysis,
              overAllocatedEngineers |-> kpisOverAllocatedEngineers]
  /\ UNCHANGED <<sessionVars, peers, now, authUser, state, srvVars, pageVars>>

\* ------------------------------------------------------------ AppContext
\* null in an error field.
NoError == ""

initialState ==
  [engineers |-> <<>>, engineersLoading |-> FALSE,
   projects |-> <<>>,
   assignments |-> <<>>, assignmentsLoading |-> FALSE, assignmentsError |-> NoError,
   utilizationData |-> <<>>,
   isCreating |-> FALSE, isUpdating |-> FALSE, isDeleting |-> FALSE]

Action(type, payload) == [type |-> type, payload |-> payload]

\* The created assignment added behind the others.
appendCreated(assignments, payload) == assignments \o <<payload>>

\* [action.payload, ...state.assignments]
prependCreated(assignments, payload) == <<payload>> \o assignments

appReducer(st, action) ==
  CASE action.type = "LOAD_ENGINEERS_START" ->
         [st EXCEPT !.engineersLoading = TRUE]
    [] action.type = "CREATE_PROJECT_START" ->
         [st EXCEPT !.isCreating = TRUE]
    [] action.type = "CREATE_PROJECT_SUCCESS" ->
         [st EXCEPT !.projects = <<action.payload>> \o st.projects,
                    !.isCreating = FALSE]
    [] action.type = "CREATE_PROJECT_FAILURE" ->
         [st EXCEPT !.isCreating = FALSE]
    [] action.type = "LOAD_ENGINEERS_SUCCESS" ->
         [st EXCEPT !.engineers = action.payload, !.engineersLoading = FALSE]
    [] action.type = "LOAD_ENGINEERS_FAILURE" ->
         [st EXCEPT !.engineersLoading = FALSE]
    [] action.type = "LOAD_ASSIGNMENTS_START" ->
         [st EXCEPT !.assignmentsLoading = TRUE, !.assignmentsError = NoError]
    [] action.type = "LOAD_ASSIGNMENTS_SUCCESS" ->
         [st EXCEPT !.assignments = action.payload, !.assignmentsLoading = FALSE,
                    !.assignmentsError = NoError]
    [] action.type = "LOAD_ASSIGNMENTS_FAILURE" ->
         [st EXCEPT !.assignmentsLoading = FALSE,
                    !.assignmentsError = action.payload]
    [] action.type = "CREATE_ASSIGNMENT_START" ->
         [st EXCEPT !.isCreating = TRUE, !.assignmentsError = NoError]
    [] action.type = "CREATE_ASSIGNMENT_SUCCESS" ->
         [st EXCEPT !.assignments = prependCreated(st.assignments, action.payload),
                    !.isCreating = FALSE, !.assignmentsError = NoError]
    [] action.type = "CREATE_ASSIGNMENT_FAILURE" ->
         [st EXCEPT !.isCreating = FALSE, !.assignmentsError = action.payload]
    [] action.type = "UPDATE_ASSIGNMENT_START" ->
         [st EXCEPT !.isUpdating = TRUE, !.assignmentsError = NoError]
    [] action.type = "UPDATE_ASSIGNMENT_SUCCESS" ->
         [st EXCEPT !.assignments =
                      [i \in 1..Len(st.assignments) |->
                         IF st.assignments[i]._id = action.payload._id
                           THEN action.payload ELSE st.assignments[i]],
                    !.isUpdating = FALSE, !.assignmentsError = NoError]
    [] action.type = "UPDATE_ASSIGNMENT_FAILURE" ->
         [st EXCEPT !.isUpdating = FALSE, !.assignmentsError = action.payload]
    [] action.type = "DELETE_ASSIGNMENT_START" ->
         [st EXCEPT !.isDeleting = TRUE, !.assignmentsError = NoError]
    [] action.type = "DELETE_ASSIGNMENT_SUCCESS" ->
         [st EXCEPT !.assignments =
                      SelectSeq(st.assignments,
                                LAMBDA assignment : assignment._id # action.payload),
                    !.isDeleting = FALSE, !.assignmentsError = NoError]
    [] action.type = "DELETE_ASSIGNMENT_FAILURE" ->
         [st EXCEPT !.isDeleting = FALSE, !.assignmentsError = action.payload]
    [] OTHER -> st

RECURSIVE Dispatch(_, _)
Dispatch(st, actions) ==
  IF actions = <<>> THEN st
  ELSE Dispatch(appReducer(st, Head(actions)), Tail(actions))

SuccessType(op) ==
  CASE op = "create" -> "CREATE_ASSIGNMENT_SUCCESS"
    [] op = "update" -> "UPDATE_ASSIGNMENT_SUCCESS"
    [] op = "delete" -> "DELETE_ASSIGNMENT_SUCCESS"

FailureType(op) ==
  CASE op = "create" -> "CREATE_ASSIGNMENT_FAILURE"
    [] op = "update" -> "UPDATE_ASSIGNMENT_FAILURE"
    [] op = "delete" -> "DELETE_ASSIGNMENT_FAILURE"

\* error.message of a rejected API call.
ErrorMessage == "error"

\* A mutation call that starts loadEngineers whatever the API call's outcome.
mutationDispatchesAlwaysReload(op, ok, payload) ==
  IF ok THEN <<Action(SuccessType(op), payload),
               Action("LOAD_ENGINEERS_START", Null)>>
  ELSE <<Action(FailureType(op), ErrorMessage),
         Action("LOAD_ENGINEERS_START", Null)>>

\* createAssignment / updateAssignment / deleteAssignment once the API call
\* has settled: what is dispatched before the next await or the rethrow.
mutationDispatches(op, ok, payload) ==
  IF ok THEN <<Action(SuccessType(op), payload),
               Action("LOAD_ENGINEERS_START", Null)>>
  ELSE <<Action(FailureType(op), ErrorMessage)>>

\* The catch block ends with throw error.
mutationRethrows(ok) == ~ok

\* What a settled mutation call did, as the page observes it.
CallEvent(op, id, ok, payload) ==
  [type |-> "call", op |-> op, id |-> id, ok |-> ok,
   dispatched |-> mutationDispatches(op, ok, payload),
   rethrown |-> mutationRethrows(ok)]

\* --------------------------------------------------------------- backend
\* The REST backend is not part of the client sources: it follows the
\* capacity-accounting rules of the specification.
\* The team the backend serves: one engineer of full capacity.
SrvMaxCapacity(engineerId) == 100

SrvEngineers == << [_id |-> "e1", maxCapacity |-> SrvMaxCapacity("e1")] >>

Overlaps(assignment, rangeStart, rangeEnd) ==
  assignment.startDate <= rangeEnd /\ assignment.endDate >= rangeStart

RECURSIVE SumAllocation(_)
SumAllocation(S) ==
  IF S = {} THEN 0
  ELSE LET a == CHOOSE x \in S : TRUE
       IN a.allocationPercentage + SumAllocation(S \ {a})

computeAllocation(engineerId, records, rangeStart, rangeEnd) ==
  SumAllocation({a \in records : /\ a.engineerId = engineerId
                                 /\ Overlaps(a, rangeStart, rangeEnd)})

SrvAvailableCapacity(engineerId, startDate, endDate) ==
  Max(0, SrvMaxCapacity(engineerId)
           - computeAllocation(engineerId, srvAssignments, startDate, endDate))

RECURSIVE SortById(_)
SortById(S) ==
  IF S = {} THEN <<>>
  ELSE LET a == CHOOSE x \in S : \A y \in S : x._id <= y._id
       IN <<a>> \o SortById(S \ {a})

SrvAssignmentList == SortById(srvAssignments)

SrvNewAssignment(data) ==
  [_id |-> nextId, engineerId |-> data.engineerId,
   allocationPercentage |-> data.allocationPercentage,
   startDate |-> data.startDate, endDate |-> data.endDate]

SrvUpdatedAssignment(id, data) ==
  [_id |-> id, engineerId |-> data.engineerId,
   allocationPercentage |-> data.allocationPercentage,
   startDate |-> data.startDate, endDate |-> data.endDate]

\* ------------------------------------------------------- AssignmentsPage
isManager == authUser.role = "manager"

defaultValues == [engineerId |-> "", startDate |-> NoDate, endDate |-> NoDate]

\* new Date(dateString): the day's first instant, Invalid Date for "".
NewDate(dateString) ==
  IF dateString = NoDate THEN NaN ELSE dateString * TicksPerDay

\* a > b on Date values: false when either is Invalid Date.
DateGreater(a, b) == a # NaN /\ b # NaN /\ a > b

\* The refinement with end >= start in place of end > start.
refineEndNotBeforeStart(data) ==
  LET start == NewDate(data.startDate)
      end == NewDate(data.endDate)
  IN start # NaN /\ end # NaN /\ end >= start

\* .refine(data => end > start) on the two parsed dates.
assignmentSchemaRefine(data) ==
  LET start == NewDate(data.startDate)
      end == NewDate(data.endDate)
  IN DateGreater(end, start)

\* The issues zod reports for a submitted form, by path.
assignmentSchema(data) ==
  (IF data.engineerId = "" THEN {"engineerId"} ELSE {})
  \cup (IF data.projectId = "" THEN {"projectId"} ELSE {})
  \cup (IF data.role = "" THEN {"role"} ELSE {})
  \cup (IF data.allocationPercentage < 1 \/ data.allocationPercentage > 100
          THEN {"allocationPercentage"} ELSE {})
  \cup (IF data.startDate = NoDate THEN {"startDate"} ELSE {})
  \cup (IF data.endDate = NoDate THEN {"endDate"} ELSE {})
  \cup (IF ~assignmentSchemaRefine(data) THEN {"endDate after startDate"} ELSE {})

PageLoading == state.assignmentsLoading \/ state.engineersLoading

DialogOpen == isCreateDialogOpen \/ isEditDialogOpen

\* The form is on screen: a dialog is open and the page is not replaced by
\* its loading spinner.
FormVisible == isManager /\ ~PageLoading /\ DialogOpen

\* isEdit of the AssignmentForm on screen: the edit dialog's form.
isEdit == isEditDialogOpen

\* The row actions shown to every signed-in user.
TableVisibleToAll == ~PageLoading /\ ~DialogOpen

TableVisible == isManager /\ ~PageLoading /\ ~DialogOpen

\* The body of the checkCapacity effect: the lookups it starts.
checkCapacity(values, engineerList) ==
  IF values.engineerId # "" /\ values.startDate # NoDate /\ values.endDate # NoDate
    THEN {[engineerId |-> values.engineerId,
           startDate |-> values.startDate,
           endDate |-> values.endDate,
           engineer |-> values.engineerId \in Ids(engineerList)]}
    ELSE {}

\* The effect runs after a render in which one of its dependencies changed.
EffectLookups(values, engineerList, reloaded) ==
  IF reloaded \/ values # formValues
    THEN checkCapacity(values, engineerList)
    ELSE {}

StartLookups(new) ==
  /\ lookups' = lookups \cup new
  /\ Cardinality(lookups') <= MaxLookups

NoEvent == [type |-> "none"]

\* The saves and deletes awaiting the backend.
CallsInFlight ==
  Cardinality(deleteCalls) + (IF submitCall = Null THEN 0 ELSE 1)

\* The object given to setCapacityInfo, with the arguments of the
\* getEngineerCapacity call that produced it.
CapacityInfo(capacity, l) ==
  [available |-> capacity,
   lookup |-> [engineerId |-> l.engineerId, startDate |-> l.startDate,
               endDate |-> l.endDate]]

\* getEngineerCapacity resolves (0 when the request failed) and the effect
\* continues: capacityInfo is set when the engineer was in the list.
CapacityResponse(l, ok) ==
  /\ l \in lookups
  /\ LET capacity == IF ok THEN SrvAvailableCapacity(l.engineerId, l.startDate, l.endDate)
                     ELSE 0
     IN capacityInfo' = IF l.engineer THEN [available |-> capacity] ELSE capacityInfo
  /\ lookups' = lookups \ {l}
  /\ lastSubmit' = NoEvent
  /\ UNCHANGED <<sessionVars, peers, now, authUser, state, view, srvVars, formValues,
                 isCreateDialogOpen, isEditDialogOpen, editingAssignment,
                 loads, submitCall, deleteCalls>>

SetField(values) ==
  /\ FormVisible
  /\ values # formValues
  /\ formValues' = values
  /\ StartLookups(EffectLookups(values, state.engineers, FALSE))
  /\ lastSubmit' = NoEvent
  /\ UNCHANGED <<sessionVars, peers, now, authUser, state, view, srvVars, capacityInfo,
                 isCreateDialogOpen, isEditDialogOpen, editingAssignment,
                 loads, submitCall, deleteCalls>>

SetEngineerId(value) ==
  /\ ~isEdit
  /\ value \in Ids(state.engineers)
  /\ SetField([formValues EXCEPT !.engineerId = value])

SetStartDate(value) == SetField([formValues EXCEPT !.startDate = value])

SetEndDate(value) == SetField([formValues EXCEPT !.endDate = value])

OpenCreateDialog ==
  /\ TableVisible
  /\ isCreateDialogOpen' = TRUE
  /\ lastSubmit' = NoEvent
  /\ UNCHANGED <<sessionVars, peers, now, authUser, state, view, srvVars, formValues, capacityInfo,
                 isEditDialogOpen, editingAssignment, lookups, loads,
                 submitCall, deleteCalls>>

\* assignment.startDate is the ISO string of a day's first instant;
\* split("T")[0] is its date part, the string of the same day.
splitT(isoString) == isoString

handleEditAssignment(assignment) ==
  /\ TableVisible
  /\ assignment \in Range(state.assignments)
  /\ editingAssignment' = assignment
  /\ formValues' = [engineerId |-> assignment.engineerId,
                    startDate |-> splitT(assignment.startDate),
                    endDate |-> splitT(assignment.endDate)]
  /\ isEditDialogOpen' = TRUE
  /\ StartLookups(EffectLookups(formValues', state.engineers, FALSE))
  /\ lastSubmit' = NoEvent
  /\ UNCHANGED <<sessionVars, peers, now, authUser, state, view, srvVars, capacityInfo,
                 isCreateDialogOpen, loads, submitCall, deleteCalls>>

\* The Cancel button of the form on screen.
handleDialogClose ==
  /\ FormVisible
  /\ IF isEdit
       THEN /\ isEditDialogOpen' = FALSE
            /\ editingAssignment' = Null
            /\ UNCHANGED isCreateDialogOpen
       ELSE /\ isCreateDialogOpen' = FALSE
            /\ UNCHANGED <<isEditDialogOpen, editingAssignment>>
  /\ formValues' = defaultValues
  /\ capacityInfo' = Null
  /\ lastSubmit' = NoEvent
  /\ UNCHANGED <<sessionVars, peers, now, authUser, state, view, srvVars, lookups, loads,
                 submitCall, deleteCalls>>

\* Escape or a click on the overlay: the dialog's own onOpenChange(false).
DismissDialog ==
  /\ FormVisible
  /\ IF isEdit
       THEN isEditDialogOpen' = FALSE /\ UNCHANGED isCreateDialogOpen
       ELSE isCreateDialogOpen' = FALSE /\ UNCHANGED isEditDialogOpen
  /\ lastSubmit' = NoEvent
  /\ UNCHANGED <<sessionVars, peers, now, authUser, state, view, srvVars, formValues, capacityInfo,
                 editingAssignment, lookups, loads, submitCall, deleteCalls>>

\* An onSubmit that never compares the allocation with capacityInfo.
exceedsCapacityUnchecked(editing, info, data) == FALSE

\* The condition of onSubmit's capacity alert, on the editingAssignment and
\* capacityInfo of the render that submits.
exceedsCapacity(editing, info, data) ==
  /\ editing = Null
  /\ info # Null
  /\ data.allocationPercentage > info.available

\* onSubmit's capacity check.
capacityExceeded(data) == exceedsCapacity(editingAssignment, capacityInfo, data)

\* onSubmit without the return that follows the alert.
onSubmitRequestAfterAlert(data) ==
  IF editingAssignment # Null THEN "update" ELSE "create"

\* The request onSubmit goes on to send.
onSubmitRequest(data) ==
  IF capacityExceeded(data) THEN "none"
  ELSE IF editingAssignment # Null THEN "update"
  ELSE "create"

\* handleSubmit(onSubmit) without a resolver.
handleSubmitUnvalidated(data) == onSubmitRequest(data)

\* handleSubmit(onSubmit): the resolver validates, then onSubmit runs.
handleSubmitRequest(data) ==
  IF assignmentSchema(data) # {} THEN "none" ELSE onSubmitRequest(data)

SubmitForm(allocationPercentage, projectId, role) ==
  /\ FormVisible
  /\ submitCall = Null /\ ~state.isCreating /\ ~state.isUpdating
  /\ LET data == [engineerId |-> formValues.engineerId,
                  projectId |-> projectId,
                  role |-> role,
                  allocationPercentage |-> allocationPercentage,
                  startDate |-> formValues.startDate,
                  endDate |-> formValues.endDate]
         errors == assignmentSchema(data)
         request == handleSubmitRequest(data)
     IN /\ lastSubmit' = [type |-> "submit", data |-> data, errors |-> errors,
                          editing |-> IF editingAssignment = Null THEN 0
                                      ELSE editingAssignment._id,
                          alert |-> IF errors = {} /\ capacityExceeded(data)
                                      THEN "capacity" ELSE "none",
                          request |-> request]
        /\ request # "none" => CallsInFlight < MaxCalls
        /\ CASE request = "create" ->
                  /\ nextId <= MaxAssignments
                  /\ state' = appReducer(state, Action("CREATE_ASSIGNMENT_START", Null))
                  /\ submitCall' = [op |-> "create", stage |-> "request",
                                    id |-> 0, data |-> data]
             [] request = "update" ->
                  /\ state' = appReducer(state, Action("UPDATE_ASSIGNMENT_START", Null))
                  /\ submitCall' = [op |-> "update", stage |-> "request",
                                    id |-> editingAssignment._id, data |-> data]
             [] OTHER -> UNCHANGED <<state, submitCall>>
  /\ UNCHANGED <<sessionVars, peers, now, authUser, view, srvVars, formValues, capacityInfo,
                 isCreateDialogOpen, isEditDialogOpen, editingAssignment,
                 lookups, loads, deleteCalls>>

\* createAssignment / updateAssignment: the API call resolves, the reducer
\* takes the result and loadEngineers starts.
SaveSucceeds ==
  /\ submitCall # Null /\ submitCall.stage = "request"
  /\ LET saved == IF submitCall.op = "create"
                    THEN SrvNewAssignment(submitCall.data)
                    ELSE SrvUpdatedAssignment(submitCall.id, submitCall.data)
     IN /\ IF submitCall.op = "create"
             THEN /\ srvAssignments' = srvAssignments \cup {saved}
                  /\ nextId' = nextId + 1
             ELSE /\ \E old \in srvAssignments : old._id = submitCall.id
                  /\ srvAssignments' =
                       {a \in srvAssignments : a._id # submitCall.id} \cup {saved}
                  /\ UNCHANGED nextId
        /\ state' = Dispatch(state, mutationDispatches(submitCall.op, TRUE, saved))
        /\ lastSubmit' = CallEvent(submitCall.op, submitCall.id, TRUE, saved)
  /\ submitCall' = [submitCall EXCEPT !.stage = "reload"]
  /\ UNCHANGED <<sessionVars, peers, now, authUser, view, formValues, capacityInfo,
                 isCreateDialogOpen, isEditDialogOpen, editingAssignment,
                 lookups, loads, deleteCalls>>

\* The API call rejects: *_FAILURE, the error is rethrown and onSubmit's
\* catch alerts; nothing of the page changes.
SaveFails ==
  /\ submitCall # Null /\ submitCall.stage = "request"
  /\ state' = Dispatch(state, mutationDispatches(submitCall.op, FALSE, Null))
  /\ lastSubmit' = CallEvent(submitCall.op, submitCall.id, FALSE, Null)
  /\ submitCall' = Null
  /\ UNCHANGED <<sessionVars, peers, now, authUser, view, srvVars, formValues, capacityInfo,
                 isCreateDialogOpen, isEditDialogOpen, editingAssignment,
                 lookups, loads, deleteCalls>>

\* loadEngineers of the save resolves (it never rejects) and onSubmit goes
\* on: the dialog closes, the form is reset, capacityInfo is cleared.
SaveReloaded(ok) ==
  /\ submitCall # Null /\ submitCall.stage = "reload"
  /\ state' = appReducer(state,
                 IF ok THEN Action("LOAD_ENGINEERS_SUCCESS", SrvEngineers)
                 ELSE Action("LOAD_ENGINEERS_FAILURE", ErrorMessage))
  /\ IF submitCall.op = "update"
       THEN /\ isEditDialogOpen' = FALSE
            /\ editingAssignment' = Null
            /\ UNCHANGED isCreateDialogOpen
       ELSE /\ isCreateDialogOpen' = FALSE
            /\ UNCHANGED <<isEditDialogOpen, editingAssignment>>
  /\ formValues' = defaultValues
  /\ capacityInfo' = Null
  /\ submitCall' = Null
  /\ lastSubmit' = NoEvent
  /\ UNCHANGED <<sessionVars, peers, now, authUser, view, srvVars, lookups, loads, deleteCalls>>

handleDeleteAssignment(assignmentId) ==
  /\ TableVisible
  /\ assignmentId \in Ids(state.assignments)
  /\ CallsInFlight < MaxCalls
  /\ state' = appReducer(state, Action("DELETE_ASSIGNMENT_START", Null))
  /\ deleteCalls' = deleteCalls \cup {[id |-> assignmentId, stage |-> "request"]}
  /\ lastSubmit' = NoEvent
  /\ UNCHANGED <<sessionVars, peers, now, authUser, view, srvVars, formValues, capacityInfo,
                 isCreateDialogOpen, isEditDialogOpen, editingAssignment,
                 lookups, loads, submitCall>>

DeleteSucceeds(c) ==
  /\ c \in deleteCalls /\ c.stage = "request"
  /\ \E old \in srvAssignments : old._id = c.id
  /\ srvAssignments' = {a \in srvAssignments : a._id # c.id}
  /\ state' = Dispatch(state, mutationDispatches("delete", TRUE, c.id))
  /\ deleteCalls' = (deleteCalls \ {c}) \cup {[c EXCEPT !.stage = "reload"]}
  /\ lastSubmit' = CallEvent("delete", c.id, TRUE, c.id)
  /\ UNCHANGED <<sessionVars, peers, now, authUser, view, nextId, formValues, capacityInfo,
                 isCreateDialogOpen, isEditDialogOpen, editingAssignment,
                 lookups, loads, submitCall>>

DeleteFails(c) ==
  /\ c \in deleteCalls /\ c.stage = "request"
  /\ state' = Dispatch(state, mutationDispatches("delete", FALSE, Null))
  /\ deleteCalls' = deleteCalls \ {c}
  /\ lastSubmit' = CallEvent("delete", c.id, FALSE, Null)
  /\ UNCHANGED <<sessionVars, peers, now, authUser, view, srvVars, formValues, capacityInfo,
                 isCreateDialogOpen, isEditDialogOpen, editingAssignment,
                 lookups, loads, submitCall>>

\* A loadEngineers that is not part of a save resolves; a new engineers
\* array re-runs the checkCapacity effect.
EngineersLoaded(ok) ==
  /\ state' = appReducer(state,
                 IF ok THEN Action("LOAD_ENGINEERS_SUCCESS", SrvEngineers)
                 ELSE Action("LOAD_ENGINEERS_FAILURE", ErrorMessage))
  /\ StartLookups(EffectLookups(formValues, state'.engineers, ok))

DeleteReloaded(c, ok) ==
  /\ c \in deleteCalls /\ c.stage = "reload"
  /\ EngineersLoaded(ok)
  /\ deleteCalls' = deleteCalls \ {c}
  /\ lastSubmit' = NoEvent
  /\ UNCHANGED <<sessionVars, peers, now, authUser, view, srvVars, formValues, capacityInfo,
                 isCreateDialogOpen, isEditDialogOpen, editingAssignment,
                 loads, submitCall>>

\* The loads started when the page mounts.
MountLoadEngineersDone(ok) ==
  /\ "engineers" \in loads
  /\ EngineersLoaded(ok)
  /\ loads' = loads \ {"engineers"}
  /\ lastSubmit' = NoEvent
  /\ UNCHANGED <<sessionVars, peers, now, authUser, view, srvVars, formValues, capacityInfo,
                 isCreateDialogOpen, isEditDialogOpen, editingAssignment,
                 submitCall, deleteCalls>>

MountLoadAssignmentsDone(ok) ==
  /\ "assignments" \in loads
  /\ state' = appReducer(state,
                 IF ok THEN Action("LOAD_ASSIGNMENTS_SUCCESS", SrvAssignmentList)
                 ELSE Action("LOAD_ASSIGNMENTS_FAILURE", ErrorMessage))
  /\ loads' = loads \ {"assignments"}
  /\ lastSubmit' = NoEvent
  /\ UNCHANGED <<sessionVars, peers, now, authUser, view, srvVars, formValues, capacityInfo,
                 isCreateDialogOpen, isEditDialogOpen, editingAssignment,
                 lookups, submitCall, deleteCalls>>

\* ------------------------------------------------ the dashboards' inputs
AssignmentRecords ==
  { [_id |-> i, engineerId |-> e, allocationPercentage |-> p,
     startDate |-> s, endDate |-> t] :
      i \in {0}, e \in EngineerIds, p \in AllocationValues,
      s \in Days, t \in Days }

WithId(a, i) == [a EXCEPT !._id = i]

\* Lists of up to MaxAssignments assignments, ids 1.. in list order, each
\* with endDate after startDate as the form's schema requires.
AssignmentLists ==
  UNION { { [i \in 1..n |-> WithId(f[i], i)] :
              f \in [1..n -> {a \in AssignmentRecords : a.endDate > a.startDate}] } :
          n \in 0..MaxAssignments }

EngineerRecords(e) ==
  { [_id |-> e, maxCapacity |-> m, currentAllocation |-> c] :
      m \in CapacityValues, c \in CurrentAllocationValues }

\* The page-local state of an AssignmentsPage that has just mounted.
\* A signed-in session showing the page at `path`.
SignedIn(path) ==
  /\ authState = [user |-> authUser, isLoading |-> FALSE,
                  isAuthenticated |-> TRUE, error |-> NoError]
  /\ localStorage = [auth_token |-> authUser._id, user_data |-> authUser]
  /\ location = path
  /\ authCalls = {}
  /\ startup = [token |-> TRUE, done |-> TRUE]
  /\ reloadPending = FALSE
  /\ peers = <<>>

InitPage ==
  /\ formValues = defaultValues
  /\ capacityInfo = Null
  /\ isCreateDialogOpen = FALSE
  /\ isEditDialogOpen = FALSE
  /\ editingAssignment = Null
  /\ lookups = {}
  /\ submitCall = Null
  /\ deleteCalls = {}
  /\ lastSubmit = NoEvent

InitEngineerSession ==
  /\ authUser \in { [_id |-> e, role |-> "engineer", maxCapacity |-> m] :
                      e \in EngineerIds, m \in CapacityValues }
  /\ \E l \in AssignmentLists :
       state = [initialState EXCEPT !.assignments = l]

\* A project in the loaded collection.
LoadedProject == [_id |-> "p1", requiredSkills |-> <<>>]

InitManagerSession ==
  /\ authUser = [_id |-> "m1", role |-> "manager", maxCapacity |-> 0]
  /\ \E l \in {x \in AssignmentLists : Len(x) <= 1},
        a \in EngineerRecords("e1"), b \in EngineerRecords("e2") :
       state = [initialState EXCEPT !.assignments = l, !.engineers = <<a, b>>,
                                    !.projects = <<LoadedProject>>]

\* The dashboards over loaded collections: the collections, the signed-in
\* user and the clock are inputs.
InitDash ==
  /\ now \in Instants
  /\ view = [page |-> "none"]
  /\ InitEngineerSession \/ InitManagerSession
  /\ srvAssignments = {} /\ nextId = 1
  /\ loads = {}
  /\ InitPage
  /\ SignedIn("/dashboard")

NextDash ==
  \/ RenderEngineerDashboard
  \/ RenderEngineersPage
  \/ RenderManagerDashboard
  \/ RenderAnalyticsPage

SpecDash == InitDash /\ [][NextDash]_vars

SeedAssignment ==
  [_id |-> 1, engineerId |-> "e1", allocationPercentage |-> 50,
   startDate |-> 1, endDate |-> 2]

\* The users that can be signed in on the assignments page.
SessionUsers ==
  {[_id |-> "m1", role |-> "manager", maxCapacity |-> 0],
   [_id |-> "e1", role |-> "engineer", maxCapacity |-> 100]}

\* The assignments page, just mounted: its loads are under way.
Init ==
  /\ now = 0
  /\ view = [page |-> "none"]
  /\ authUser \in SessionUsers
  /\ \/ srvAssignments = {} /\ nextId = 1
     \/ srvAssignments = {SeedAssignment} /\ nextId = 2
  /\ state = appReducer(appReducer(initialState,
                                   Action("LOAD_ASSIGNMENTS_START", Null)),
                        Action("LOAD_ENGINEERS_START", Null))
  /\ loads = {"assignments", "engineers"}
  /\ InitPage
  /\ SignedIn("/assignments")

AllocationInputs == {0, 50, 60, 101}

\* The project and role fields of the form at submit.
ProjectRoleInputs ==
  {<<"p1", "Developer">>, <<"", "Developer">>, <<"p1", "">>}

Next ==
  \/ \E ok \in BOOLEAN : MountLoadEngineersDone(ok)
  \/ \E ok \in BOOLEAN : MountLoadAssignmentsDone(ok)
  \/ OpenCreateDialog
  \/ \E e \in EngineerIds : SetEngineerId(e)
  \/ \E d \in DateInputs : SetStartDate(d)
  \/ \E d \in DateInputs : SetEndDate(d)
  \/ \E l \in lookups, ok \in BOOLEAN : CapacityResponse(l, ok)
  \/ \E p \in AllocationInputs, pr \in ProjectRoleInputs :
       SubmitForm(p, pr[1], pr[2])
  \/ SaveSucceeds
  \/ SaveFails
  \/ \E ok \in BOOLEAN : SaveReloaded(ok)
  \/ handleDialogClose
  \/ DismissDialog
  \/ \E a \in Range(state.assignments) : handleEditAssignment(a)
  \/ \E id \in Ids(state.assignments) : handleDeleteAssignment(id)
  \/ \E c \in deleteCalls : DeleteSucceeds(c)
  \/ \E c \in deleteCalls : DeleteFails(c)
  \/ \E c \in deleteCalls, ok \in BOOLEAN : DeleteReloaded(c, ok)

Spec == Init /\ [][Next]_vars

\* ------------------------------------------------- the reducer's inputs
\* Assignment lists as the reducer may be handed them, repeated _id
\* included.
ReducerRecords ==
  [_id : 1..MaxAssignments, engineerId : {"e1"},
   allocationPercentage : AllocationValues, startDate : {1}, endDate : {MaxDay}]

ReducerLists ==
  UNION {[1..n -> ReducerRecords] : n \in 0..MaxListLen}

ReducerActions ==
  {Action("CREATE_ASSIGNMENT_SUCCESS", r) : r \in ReducerRecords}
  \cup {Action("UPDATE_ASSIGNMENT_SUCCESS", [r EXCEPT !._id = i]) :
          r \in ReducerRecords, i \in 1..(MaxAssignments + 1)}
  \cup {Action("DELETE_ASSIGNMENT_SUCCESS", i) : i \in 1..(MaxAssignments + 1)}

InitReducer ==
  /\ now = 0
  /\ view = [page |-> "none"]
  /\ authUser \in SessionUsers
  /\ \E l \in ReducerLists, e \in {<<>>, SrvEngineers},
        p \in {<<>>, <<"p1">>}, u \in {<<>>, <<"u1">>} :
       state = [initialState EXCEPT !.assignments = l, !.engineers = e,
                                    !.projects = p, !.utilizationData = u]
  /\ srvAssignments = {} /\ nextId = 1
  /\ loads = {}
  /\ InitPage
  /\ SignedIn("/assignments")

\* dispatch(action): the provider's state becomes appReducer(state, action).
Reduce(action) ==
  /\ view.page = "none"
  /\ state' = appReducer(state, action)
  /\ view' = [page |-> "appReducer", before |-> state, action |-> action]
  /\ UNCHANGED <<sessionVars, peers, now, authUser, srvVars, pageVars>>

NextReducer == \E action \in ReducerActions : Reduce(action)

SpecReducer == InitReducer /\ [][NextReducer]_vars


\* ------------------------------------------------------------ AuthContext
\* null as authState.user and as the stored user_data.
NoUser == [_id |-> "", role |-> "", maxCapacity |-> 0]

\* No auth_token in localStorage.
NoToken == ""

SessionExpired == "Session expired. Please log in again."

authInitialState ==
  [user |-> NoUser, isLoading |-> FALSE, isAuthenticated |-> FALSE,
   error |-> NoError]

authReducer(st, action) ==
  CASE action.type \in {"LOGIN_START", "REGISTER_START", "LOAD_USER_START"} ->
         [st EXCEPT !.isLoading = TRUE, !.error = NoError]
    [] action.type \in {"LOGIN_SUCCESS", "REGISTER_SUCCESS", "LOAD_USER_SUCCESS"} ->
         [st EXCEPT !.user = action.payload, !.isAuthenticated = TRUE,
                    !.isLoading = FALSE, !.error = NoError]
    [] action.type \in {"LOGIN_FAILURE", "REGISTER_FAILURE", "LOAD_USER_FAILURE"} ->
         [st EXCEPT !.user = NoUser, !.isAuthenticated = FALSE,
                    !.isLoading = FALSE, !.error = action.payload]
    [] action.type = "LOGOUT" -> authInitialState
    [] action.type = "CLEAR_ERROR" -> [st EXCEPT !.error = NoError]
    [] OTHER -> st

\* authService.isAuthenticated(): a token is stored.
authServiceIsAuthenticated == localStorage.auth_token # NoToken

\* authService.logout() and the 401 interceptor: both items removed.
ClearedStorage == [auth_token |-> NoToken, user_data |-> NoUser]

\* What authService.login stores: the token stands for its user.
StoredSession(user) == [auth_token |-> user._id, user_data |-> user]

\* The profile the backend returns for the stored token.
ProfileOf(token) == CHOOSE u \in SessionUsers : u._id = token

\* ------------------------------------------------------------ App routes
Spinner == [kind |-> "spinner"]
Redirect(to) == [kind |-> "redirect", to |-> to]
Page(name) == [kind |-> "page", page |-> name]

\* A protected route that renders its children for everyone.
ProtectedRouteOpen(st, children) == children

ProtectedRoute(st, children) ==
  IF st.isLoading THEN Spinner
  ELSE IF ~st.isAuthenticated THEN Redirect("/login")
  ELSE children

\* A manager route that lets every authenticated user through.
ManagerRouteAnyRole(st, children) ==
  IF st.isLoading THEN Spinner
  ELSE IF ~st.isAuthenticated THEN Redirect("/login")
  ELSE children

ManagerRoute(st, children) ==
  IF st.isLoading THEN Spinner
  ELSE IF ~st.isAuthenticated THEN Redirect("/login")
  ELSE IF ~(st.user.role = "manager") THEN Redirect("/dashboard")
  ELSE children

DashboardRoute(st) ==
  IF st.user.role = "manager" THEN Page("ManagerDashboard")
  ELSE Page("EngineerDashboard")

PublicRoute(st, children) ==
  IF st.isLoading THEN Spinner
  ELSE IF st.isAuthenticated THEN Redirect("/dashboard")
  ELSE children

ProtectedPaths ==
  {"/dashboard", "/engineers", "/projects", "/assignments", "/analytics",
   "/profile"}

Paths == {"/login", "/", "/missing"} \cup ProtectedPaths

\* The routes nested in the dashboard layout.
NestedRoutes(st, path) ==
  CASE path = "/" -> Redirect("/dashboard")
    [] path = "/dashboard" -> DashboardRoute(st)
    [] path = "/engineers" -> ManagerRoute(st, Page("EngineersPage"))
    [] path = "/projects" -> Page("ProjectsPage")
    [] path = "/assignments" -> Page("AssignmentsPage")
    [] path = "/analytics" -> ManagerRoute(st, Page("AnalyticsPage"))
    [] path = "/profile" -> Page("ProfilePage")

AppRoutes(st, path) ==
  CASE path = "/login" -> PublicRoute(st, Page("LoginPage"))
    [] path \in {"/"} \cup ProtectedPaths ->
         ProtectedRoute(st, NestedRoutes(st, path))
    [] OTHER -> Page("404")

\* DashboardLayout is on screen: the route is a protected one and
\* ProtectedRoute rendered its children.
LayoutRendered(st, path) ==
  /\ path \in {"/"} \cup ProtectedPaths
  /\ ProtectedRoute(st, Page("DashboardLayout")) = Page("DashboardLayout")

navigation ==
  {[href |-> "/dashboard", roles |-> {"manager", "engineer"}],
   [href |-> "/engineers", roles |-> {"manager"}],
   [href |-> "/projects", roles |-> {"manager", "engineer"}],
   [href |-> "/assignments", roles |-> {"manager", "engineer"}],
   [href |-> "/analytics", roles |-> {"manager"}],
   [href |-> "/profile", roles |-> {"manager", "engineer"}]}

filteredNavigation(st) ==
  {item.href : item \in {i \in navigation : st.user.role \in i.roles}}

\* <Navigate replace>: the router follows redirects until an element stays.
RECURSIVE FollowRedirects(_, _, _)
FollowRedirects(st, path, seen) ==
  LET element == AppRoutes(st, path)
  IN IF element.kind = "redirect"
       THEN FollowRedirects(st, element.to, Append(seen, [from |-> path, to |-> element.to]))
       ELSE [path |-> path, element |-> element, redirects |-> seen]

\* What the app shows once `requested` has been routed under auth state st.
RenderRoute(st, requested) ==
  LET r == FollowRedirects(st, requested, <<>>)
  IN [page |-> "route", requested |-> requested, path |-> r.path,
      outcome |-> IF r.element.kind = "page" THEN r.element.page ELSE "spinner",
      redirects |-> r.redirects,
      layout |-> LayoutRendered(st, r.path),
      navigation |-> IF LayoutRendered(st, r.path) THEN filteredNavigation(st)
                     ELSE {}]

\* A state change re-renders the routes at the current location.
Show(st, requested) ==
  /\ authState' = st
  /\ authUser' = st.user
  /\ view' = RenderRoute(st, requested)
  /\ location' = view'.path

appVars == <<now, state, srvVars, pageVars, peers>>

\* The initializeAuth effect of AuthProvider's mount.
initializeAuth ==
  /\ ~startup.done
  /\ startup' = [startup EXCEPT !.done = TRUE]
  /\ IF authServiceIsAuthenticated
       THEN /\ Show(authReducer(authState, Action("LOAD_USER_START", Null)), location)
            /\ authCalls' = authCalls \cup {[op |-> "profile", user |-> NoUser]}
       ELSE /\ Show(authState, location)
            /\ UNCHANGED authCalls
  /\ UNCHANGED <<appVars, localStorage, reloadPending>>

ProfileSucceeds(c) ==
  /\ c \in authCalls /\ c.op = "profile"
  /\ authServiceIsAuthenticated
  /\ Show(authReducer(authState,
                      Action("LOAD_USER_SUCCESS", ProfileOf(localStorage.auth_token))),
          location)
  /\ authCalls' = authCalls \ {c}
  /\ UNCHANGED <<appVars, localStorage, startup, reloadPending>>

\* The response interceptor on a 401: the stored items are removed and the
\* document is sent to /login.
InterceptedStorage(status) ==
  IF status = 401 THEN ClearedStorage ELSE localStorage

\* A catch block that leaves the stored items to the interceptor.
StorageLeftToInterceptor(status) == InterceptedStorage(status)

\* initializeAuth's catch block calls authService.logout().
StorageAfterProfileFailure(status) == ClearedStorage

\* getProfile rejects: authService.logout(), LOAD_USER_FAILURE.
ProfileFails(c, status) ==
  /\ c \in authCalls /\ c.op = "profile"
  /\ localStorage' = StorageAfterProfileFailure(status)
  /\ reloadPending' = (reloadPending \/ status = 401)
  /\ Show(authReducer(authState, Action("LOAD_USER_FAILURE", SessionExpired)),
          location)
  /\ authCalls' = authCalls \ {c}
  /\ UNCHANGED <<appVars, startup>>

\* LoginPage submits: login(email, password) starts.
login(user) ==
  /\ startup.done
  /\ view.page = "route" /\ view.outcome = "LoginPage"
  /\ ~reloadPending
  /\ authCalls = {}
  /\ Show(authReducer(authState, Action("LOGIN_START", Null)), location)
  /\ authCalls' = {[op |-> "login", user |-> user]}
  /\ UNCHANGED <<appVars, localStorage, startup, reloadPending>>

LoginSucceeds(c) ==
  /\ c \in authCalls /\ c.op = "login"
  /\ localStorage' = StoredSession(c.user)
  /\ Show(authReducer(authState, Action("LOGIN_SUCCESS", c.user)), location)
  /\ authCalls' = authCalls \ {c}
  /\ UNCHANGED <<appVars, startup, reloadPending>>

LoginFails(c, status) ==
  /\ c \in authCalls /\ c.op = "login"
  /\ localStorage' = InterceptedStorage(status)
  /\ reloadPending' = (reloadPending \/ status = 401)
  /\ Show(authReducer(authState, Action("LOGIN_FAILURE", ErrorMessage)), location)
  /\ authCalls' = authCalls \ {c}
  /\ UNCHANGED <<appVars, startup>>

\* DashboardLayout handleLogout: logout(), navigate("/login").
handleLogout ==
  /\ startup.done
  /\ view.page = "route" /\ view.layout
  /\ ~reloadPending
  /\ localStorage' = ClearedStorage
  /\ Show(authReducer(authState, Action("LOGOUT", Null)), "/login")
  /\ UNCHANGED <<appVars, authCalls, startup, reloadPending>>

clearError ==
  /\ startup.done
  /\ view.page = "route" /\ view.outcome = "LoginPage"
  /\ authState.error # NoError
  /\ ~reloadPending
  /\ Show(authReducer(authState, Action("CLEAR_ERROR", Null)), location)
  /\ UNCHANGED <<appVars, localStorage, authCalls, startup, reloadPending>>

\* A link, or the browser's back / forward, takes the router to `path`.
GoTo(path) ==
  /\ startup.done
  /\ ~reloadPending
  /\ path # location
  /\ Show(authState, path)
  /\ UNCHANGED <<appVars, localStorage, authCalls, startup, reloadPending>>

\* window.location.href = "/login" takes effect: the app starts anew.
PageReload ==
  /\ reloadPending
  /\ reloadPending' = FALSE
  /\ authCalls' = {}
  /\ startup' = [token |-> authServiceIsAuthenticated, done |-> FALSE]
  /\ Show(authInitialState, "/login")
  /\ UNCHANGED <<appVars, localStorage>>

ResponseStatus == {401, 500}

InitAuth ==
  /\ now = 0
  /\ state = initialState
  /\ srvAssignments = {} /\ nextId = 1
  /\ loads = {}
  /\ InitPage
  /\ peers = <<>>
  /\ localStorage \in {ClearedStorage} \cup {StoredSession(u) : u \in SessionUsers}
  /\ authState = authInitialState
  /\ authUser = NoUser
  /\ startup = [token |-> authServiceIsAuthenticated, done |-> FALSE]
  /\ authCalls = {}
  /\ reloadPending = FALSE
  /\ \E requested \in Paths :
       /\ view = RenderRoute(authInitialState, requested)
       /\ location = view.path

NextAuth ==
  \/ initializeAuth
  \/ \E c \in authCalls : ProfileSucceeds(c)
  \/ \E c \in authCalls, status \in ResponseStatus : ProfileFails(c, status)
  \/ \E u \in SessionUsers : login(u)
  \/ \E c \in authCalls : LoginSucceeds(c)
  \/ \E c \in authCalls, status \in ResponseStatus : LoginFails(c, status)
  \/ handleLogout
  \/ clearError
  \/ \E path \in Paths : GoTo(path)
  \/ PageReload

SpecAuth == InitAuth /\ [][NextAuth]_vars

\* The effect of the mount runs, and every request settles (the axios
\* instance has a timeout).
SpecAuthLive ==
  /\ SpecAuth
  /\ WF_vars(initializeAuth)
  /\ WF_vars(\E c \in authCalls : ProfileSucceeds(c))
  /\ WF_vars(\E c \in authCalls, status \in ResponseStatus : ProfileFails(c, status))

\* ======================================================================
\* Two manager sessions creating assignments at the same time
\* ======================================================================
\* Each session runs the create path of AssignmentsPage against the one
\* backend: the form is filled, the checkCapacity effect asks the backend,
\* onSubmit compares the allocation with the capacityInfo it holds, and
\* createAssignment posts the assignment.
Clients == {"A", "B"}

NoCall == [stage |-> "none"]

initialPeer ==
  [values |-> defaultValues, lookups |-> {}, capacityInfo |-> Null,
   snapshot |-> {}, alert |-> "none", call |-> NoCall]

\* The fields of session p's form are set; the effect starts its lookup
\* beside those still awaited.
PeerFillForm(p, startDate, endDate) ==
  /\ peers[p].call = NoCall
  /\ LET values == [engineerId |-> "e1", startDate |-> startDate,
                    endDate |-> endDate]
     IN /\ values # peers[p].values
        /\ peers' = [peers EXCEPT
                       ![p].values = values,
                       ![p].lookups = peers[p].lookups
                                        \cup checkCapacity(values, SrvEngineers)]
  /\ UNCHANGED <<now, authUser, state, view, srvVars, pageVars, sessionVars>>

\* getEngineerCapacity resolves in session p with what the backend holds at
\* that moment (0 when the request failed).
PeerCapacityResponse(p, ok) ==
  /\ \E l \in peers[p].lookups :
       LET capacity == IF ok THEN SrvAvailableCapacity(l.engineerId, l.startDate,
                                                       l.endDate)
                       ELSE 0
       IN peers' = [peers EXCEPT
                      ![p].lookups = peers[p].lookups \ {l},
                      ![p].capacityInfo = IF l.engineer
                                            THEN CapacityInfo(capacity, l)
                                            ELSE peers[p].capacityInfo,
                      ![p].snapshot = IF ok THEN srvAssignments ELSE {}]
  /\ UNCHANGED <<now, authUser, state, view, srvVars, pageVars, sessionVars>>

\* handleSubmit(onSubmit) in session p: validation, the capacity alert, or
\* the POST of createAssignment.
PeerSubmit(p, allocationPercentage) ==
  /\ peers[p].values # defaultValues
  /\ peers[p].call = NoCall
  /\ LET data == [engineerId |-> peers[p].values.engineerId,
                  projectId |-> "p1",
                  role |-> "Developer",
                  allocationPercentage |-> allocationPercentage,
                  startDate |-> peers[p].values.startDate,
                  endDate |-> peers[p].values.endDate]
     IN IF assignmentSchema(data) # {}
          THEN peers' = [peers EXCEPT ![p].alert = "invalid"]
        ELSE IF exceedsCapacity(Null, peers[p].capacityInfo, data)
          THEN peers' = [peers EXCEPT ![p].alert = "capacity"]
        ELSE peers' = [peers EXCEPT ![p].alert = "none",
                                    ![p].call = [stage |-> "request",
                                                 data |-> data,
                                                 info |-> peers[p].capacityInfo]]
  /\ peers'[p] # peers[p]
  /\ UNCHANGED <<now, authUser, state, view, srvVars, pageVars, sessionVars>>

\* The backend stores the assignment posted by session p.
PeerSaveSucceeds(p) ==
  /\ peers[p].call.stage = "request"
  /\ srvAssignments' = srvAssignments \cup {SrvNewAssignment(peers[p].call.data)}
  /\ nextId' = nextId + 1
  /\ peers' = [peers EXCEPT ![p].call.stage = "saved"]
  /\ UNCHANGED <<now, authUser, state, view, pageVars, sessionVars>>

\* The POST of session p fails: nothing is stored.
PeerSaveFails(p) ==
  /\ peers[p].call.stage = "request"
  /\ peers' = [peers EXCEPT ![p].call.stage = "failed"]
  /\ UNCHANGED <<now, authUser, state, view, srvVars, pageVars, sessionVars>>

InitRace ==
  /\ now = 0
  /\ view = [page |-> "none"]
  /\ authUser = [_id |-> "m1", role |-> "manager", maxCapacity |-> 0]
  /\ \/ srvAssignments = {} /\ nextId = 1
     \/ srvAssignments = {SeedAssignment} /\ nextId = 2
  /\ state = [initialState EXCEPT !.engineers = SrvEngineers]
  /\ loads = {}
  /\ InitPage
  /\ authState = [user |-> authUser, isLoading |-> FALSE,
                  isAuthenticated |-> TRUE, error |-> NoError]
  /\ localStorage = [auth_token |-> authUser._id, user_data |-> authUser]
  /\ location = "/assignments"
  /\ authCalls = {}
  /\ startup = [token |-> TRUE, done |-> TRUE]
  /\ reloadPending = FALSE
  /\ peers = [p \in Clients |-> initialPeer]

\* Each session fills its form once.
NextRace ==
  \/ \E p \in Clients, s \in Days, e \in Days :
       peers[p].values = defaultValues /\ PeerFillForm(p, s, e)
  \/ \E p \in Clients, ok \in BOOLEAN : PeerCapacityResponse(p, ok)
  \/ \E p \in Clients, a \in AllocationInputs : PeerSubmit(p, a)
  \/ \E p \in Clients : PeerSaveSucceeds(p)
  \/ \E p \in Clients : PeerSaveFails(p)

SpecRace == InitRace /\ [][NextRace]_vars

\* One session whose form is changed freely while lookups are awaited.
InitLookup ==
  /\ now = 0
  /\ view = [page |-> "none"]
  /\ authUser = [_id |-> "m1", role |-> "manager", maxCapacity |-> 0]
  /\ \/ srvAssignments = {} /\ nextId = 1
     \/ srvAssignments = {SeedAssignment} /\ nextId = 2
  /\ state = [initialState EXCEPT !.engineers = SrvEngineers]
  /\ loads = {}
  /\ InitPage
  /\ authState = [user |-> authUser, isLoading |-> FALSE,
                  isAuthenticated |-> TRUE, error |-> NoError]
  /\ localStorage = [auth_token |-> authUser._id, user_data |-> authUser]
  /\ location = "/assignments"
  /\ authCalls = {}
  /\ startup = [token |-> TRUE, done |-> TRUE]
  /\ reloadPending = FALSE
  /\ peers = [p \in {"A"} |-> initialPeer]

NextLookup ==
  \/ \E p \in DOMAIN peers, s \in Days, e \in Days : PeerFillForm(p, s, e)
  \/ \E p \in DOMAIN peers, ok \in BOOLEAN : PeerCapacityResponse(p, ok)
  \/ \E p \in DOMAIN peers, a \in AllocationInputs : PeerSubmit(p, a)
  \/ \E p \in DOMAIN peers : PeerSaveSucceeds(p)
  \/ \E p \in DOMAIN peers : PeerSaveFails(p)

SpecLookup == InitLookup /\ [][NextLookup]_vars


\* ======================================================================
\* AnalyticsPage: assignment efficiency
\* ======================================================================
MaxSkills == 2

Skills == {"React", "Node"}

\* undefined as the optional id of a User.
NoId == ""

\* The arrays over S of at most n elements.
RECURSIVE SeqsUpTo(_, _)
SeqsUpTo(S, n) ==
  IF n = 0 THEN {<<>>}
  ELSE LET shorter == SeqsUpTo(S, n - 1)
       IN shorter \cup {Append(q, x) : q \in {r \in shorter : Len(r) = n - 1},
                                       x \in S}

\* state.engineers.find(e => e.id === assignment.engineerId._id)
findEngineer(engineers, assignment) ==
  LET hit(i) == engineers[i].id = assignment.engineerId._id
  IN IF \E i \in 1..Len(engineers) : hit(i)
       THEN engineers[CHOOSE i \in 1..Len(engineers) :
                        hit(i) /\ \A j \in 1..(i - 1) : ~hit(j)]
       ELSE Null

\* state.projects.find(p => p._id === assignment.projectId._id)
findProject(projects, assignment) ==
  LET hit(i) == projects[i]._id = assignment.projectId._id
  IN IF \E i \in 1..Len(projects) : hit(i)
       THEN projects[CHOOSE i \in 1..Len(projects) :
                       hit(i) /\ \A j \in 1..(i - 1) : ~hit(j)]
       ELSE Null

\* (matchingSkills / requiredSkills.length) * 100, as a fraction; 0 when no
\* skill is required.
skillMatchScore(engineer, project) ==
  LET engineerSkills == IF engineer = Null THEN {} ELSE engineer.skills
      requiredSkills == IF project = Null THEN <<>> ELSE project.requiredSkills
      matchingSkills == Len(SelectSeq(requiredSkills,
                                      LAMBDA skill : skill \in engineerSkills))
  IN IF Len(requiredSkills) > 0
       THEN Percent(matchingSkills, Len(requiredSkills))
       ELSE Number(0)

assignmentEfficiency ==
  [i \in 1..Len(state.assignments) |->
     [assignmentId |-> state.assignments[i]._id,
      skillMatch |-> skillMatchScore(
                       findEngineer(state.engineers, state.assignments[i]),
                       findProject(state.projects, state.assignments[i]))]]

\* analyticsData is computed once the three collections are loaded.
RenderAssignmentEfficiency ==
  /\ authUser.role = "manager"
  /\ view.page = "none"
  /\ Len(state.engineers) > 0 /\ Len(state.projects) > 0
  /\ Len(state.assignments) > 0
  /\ view' = [page |-> "assignmentEfficiency", rows |-> assignmentEfficiency]
  /\ UNCHANGED <<sessionVars, peers, now, authUser, state, srvVars, pageVars>>

\* The engineers the backend can return: id is optional.
SkilledEngineers(engineerId) ==
  {[_id |-> engineerId, id |-> id, skills |-> sk] :
     id \in {NoId, engineerId}, sk \in SUBSET Skills}

\* The collections of the analytics page are inputs.
InitAnalytics ==
  /\ now = 0
  /\ view = [page |-> "none"]
  /\ authUser = [_id |-> "m1", role |-> "manager", maxCapacity |-> 0]
  /\ \E a \in SkilledEngineers("e1"), b \in SkilledEngineers("e2"),
        required \in SeqsUpTo(Skills, MaxSkills),
        e \in EngineerIds, p \in {"p1", "p2"} :
       state = [initialState EXCEPT
                  !.engineers = <<a, b>>,
                  !.projects = <<[_id |-> "p1", requiredSkills |-> required]>>,
                  !.assignments = <<[_id |-> 1, engineerId |-> [_id |-> e],
                                     projectId |-> [_id |-> p]]>>]
  /\ srvAssignments = {} /\ nextId = 1
  /\ loads = {}
  /\ InitPage
  /\ SignedIn("/analytics")

NextAnalytics == RenderAssignmentEfficiency

SpecAnalytics == InitAnalytics /\ [][NextAnalytics]_vars

\* ======================================================================
\* AppContext: requests in flight at the same time
\* ======================================================================
\* The provider outlives the pages: a page's mount effect or refreshAllData
\* starts loads while a mutation started elsewhere is still awaited. `loads`
\* holds the requests awaited, each in a slot; a request is answered by the
\* backend and its response then reaches the provider.
MaxRequests == 2

FreeSlot == CHOOSE n \in 1..MaxRequests : \A r \in loads : r.n # n

\* A context method runs up to its await: *_START is dispatched and the
\* request is sent.
StartRequest(op, startType, arg) ==
  /\ Cardinality(loads) < MaxRequests
  /\ state' = appReducer(state, Action(startType, Null))
  /\ loads' = loads \cup {[n |-> FreeSlot, op |-> op, arg |-> arg,
                           stage |-> "sent", ok |-> FALSE, payload |-> Null]}
  /\ UNCHANGED <<now, authUser, view, srvVars, formValues, capacityInfo,
                 isCreateDialogOpen, isEditDialogOpen, editingAssignment,
                 lookups, submitCall, deleteCalls, lastSubmit, sessionVars, peers>>

loadAssignments == StartRequest("loadAssignments", "LOAD_ASSIGNMENTS_START", Null)

createAssignment ==
  /\ nextId + Cardinality({r \in loads : r.op = "create" /\ r.stage = "sent"})
       <= MaxAssignments
  /\ StartRequest("create", "CREATE_ASSIGNMENT_START",
                  [engineerId |-> "e1", allocationPercentage |-> 50,
                   startDate |-> 1, endDate |-> 2])

deleteAssignment(id) ==
  /\ id \in Ids(state.assignments)
  /\ StartRequest("delete", "DELETE_ASSIGNMENT_START", id)

createProject ==
  /\ Len(state.projects) + Cardinality({r \in loads : r.op = "createProject"})
       < MaxListLen
  /\ StartRequest("createProject", "CREATE_PROJECT_START", Null)

\* The backend handles request r: a load is answered with what is stored
\* at that moment, a creation or deletion changes what is stored.
BackendAnswers(r, ok) ==
  /\ r \in loads /\ r.stage = "sent"
  /\ (r.op = "delete" /\ ok) => \E a \in srvAssignments : a._id = r.arg
  /\ CASE r.op = "create" /\ ok ->
            /\ srvAssignments' = srvAssignments \cup {SrvNewAssignment(r.arg)}
            /\ nextId' = nextId + 1
       [] r.op = "delete" /\ ok ->
            /\ srvAssignments' = {a \in srvAssignments : a._id # r.arg}
            /\ UNCHANGED nextId
       [] OTHER -> UNCHANGED srvVars
  /\ LET payload ==
           CASE ~ok -> ErrorMessage
             [] r.op = "loadAssignments" -> SrvAssignmentList
             [] r.op = "loadEngineers" -> SrvEngineers
             [] r.op = "create" -> SrvNewAssignment(r.arg)
             [] r.op = "delete" -> r.arg
             [] r.op = "createProject" -> LoadedProject
     IN loads' = (loads \ {r})
                   \cup {[r EXCEPT !.stage = "answered", !.ok = ok,
                                   !.payload = payload]}
  /\ UNCHANGED <<now, authUser, view, state, formValues, capacityInfo,
                 isCreateDialogOpen, isEditDialogOpen, editingAssignment,
                 lookups, submitCall, deleteCalls, lastSubmit, sessionVars, peers>>

\* What the awaiting method dispatches when the response of r arrives.
responseDispatches(r) ==
  CASE r.op \in {"create", "delete"} -> mutationDispatches(r.op, r.ok, r.payload)
    [] r.op = "loadAssignments" ->
         <<Action(IF r.ok THEN "LOAD_ASSIGNMENTS_SUCCESS"
                  ELSE "LOAD_ASSIGNMENTS_FAILURE", r.payload)>>
    [] r.op = "loadEngineers" ->
         <<Action(IF r.ok THEN "LOAD_ENGINEERS_SUCCESS"
                  ELSE "LOAD_ENGINEERS_FAILURE", r.payload)>>
    [] r.op = "createProject" ->
         <<Action(IF r.ok THEN "CREATE_PROJECT_SUCCESS"
                  ELSE "CREATE_PROJECT_FAILURE", r.payload)>>

\* The response of r reaches the provider; a successful assignment mutation
\* goes on to await loadEngineers.
ResponseArrives(r) ==
  /\ r \in loads /\ r.stage = "answered"
  /\ state' = Dispatch(state, responseDispatches(r))
  /\ loads' = (loads \ {r})
                \cup (IF r.op \in {"create", "delete"} /\ r.ok
                        THEN {[n |-> r.n, op |-> "loadEngineers", arg |-> Null,
                               stage |-> "sent", ok |-> FALSE, payload |-> Null]}
                        ELSE {})
  /\ UNCHANGED <<now, authUser, view, srvVars, formValues, capacityInfo,
                 isCreateDialogOpen, isEditDialogOpen, editingAssignment,
                 lookups, submitCall, deleteCalls, lastSubmit, sessionVars, peers>>

\* The collections are loaded and nothing is awaited.
InitSync ==
  /\ now = 0
  /\ view = [page |-> "none"]
  /\ authUser = [_id |-> "m1", role |-> "manager", maxCapacity |-> 0]
  /\ \/ srvAssignments = {} /\ nextId = 1
     \/ srvAssignments = {SeedAssignment} /\ nextId = 2
  /\ state = [initialState EXCEPT !.engineers = SrvEngineers,
                                  !.projects = <<LoadedProject>>,
                                  !.assignments = SrvAssignmentList]
  /\ loads = {}
  /\ InitPage
  /\ SignedIn("/dashboard")

NextSync ==
  \/ loadAssignments
  \/ createAssignment
  \/ \E id \in 1..MaxAssignments : deleteAssignment(id)
  \/ createProject
  \/ \E r \in loads, ok \in BOOLEAN : BackendAnswers(r, ok)
  \/ \E r \in loads : ResponseArrives(r)

SpecSync == InitSync /\ [][NextSync]_vars

\* ======================================================================
\* Properties of the dashboards (checked under SpecDash)
\* ======================================================================

\* The assignment's [startDate, endDate] interval meets [rangeStart, rangeEnd],
\* boundaries included.
IntervalOverlaps(assignment, rangeStart, rangeEnd) ==
  /\ parseISO(assignment.startDate) <= rangeEnd
  /\ parseISO(assignment.endDate) >= rangeStart

\* C1: the workload the engineer dashboard shows is the sum of
\* allocationPercentage over exactly the signed-in engineer's assignments
\* whose interval overlaps the current instant.
C1_WorkloadIsSumOfOverlapping ==
  view.page = "EngineerDashboard" =>
    LET overlapping == SelectSeq(state.assignments,
                                 LAMBDA a : /\ a.engineerId = authUser._id
                                            /\ IntervalOverlaps(a, now, now))
    IN view.currentWorkload =
         SumSeq([i \in 1..Len(overlapping) |-> overlapping[i].allocationPercentage])

\* C2: the available capacity the engineer dashboard shows is
\* max(0, maxCapacity - allocated) for the engineer's maxCapacity in 0..100,
\* maxCapacity = 0 included.
C2_AvailableIsCapacityMinusAllocated ==
  view.page = "EngineerDashboard" =>
    view.availableCapacity = Max(0, authUser.maxCapacity - view.currentWorkload)

\* C3: every available-capacity figure a page shows is >= 0.
C3_AvailableNeverNegative ==
  /\ view.page = "EngineerDashboard" => view.availableCapacity >= 0
  /\ view.page = "EngineersPage" =>
       \A i \in 1..Len(view.cards) : view.cards[i].available >= 0
  /\ view.page = "AnalyticsPage" =>
       \A i \in 1..Len(view.utilizationAnalysis) :
         view.utilizationAnalysis[i].available >= 0

isOverAllocated(engineer) == engineer.currentAllocation > engineer.maxCapacity

\* C4: every over-allocation indicator is raised exactly for the engineers
\* with allocated > maxCapacity.
C4_OverAllocatedIffAboveCapacity ==
  /\ view.page = "EngineersPage" =>
       \A i \in 1..Len(view.cards) :
         /\ view.cards[i].label = "Over-allocated" <=> isOverAllocated(state.engineers[i])
         /\ view.cards[i].color = "red" <=> isOverAllocated(state.engineers[i])
  /\ view.page = "ManagerDashboard" =>
       /\ view.flagged = {e._id : e \in {x \in Range(state.engineers) : isOverAllocated(x)}}
       /\ view.overAllocatedEngineers =
            Cardinality({i \in 1..Len(state.engineers) : isOverAllocated(state.engineers[i])})
  /\ view.page = "AnalyticsPage" =>
       view.overAllocatedEngineers =
         Cardinality({i \in 1..Len(state.engineers) : isOverAllocated(state.engineers[i])})

\* C5: an assignment of the engineer counts as active exactly when
\* startDate <= now and endDate >= now, the boundaries included.
C5_ActiveIffInclusiveOverlap ==
  view.page = "EngineerDashboard" =>
    \A a \in Range(state.assignments) :
      a.engineerId = authUser._id =>
        (a._id \in view.active <=> IntervalOverlaps(a, now, now))

\* ======================================================================
\* Properties of the assignments form (checked under Spec)
\* ======================================================================

Submitted == lastSubmit.type = "submit" /\ lastSubmit.errors = {}

\* What the submitted assignment would bring the engineer's allocation to
\* over its date range, the assignment being edited left out.
ProposedTotal ==
  lastSubmit.data.allocationPercentage
    + computeAllocation(lastSubmit.data.engineerId,
                        {a \in srvAssignments : a._id # lastSubmit.editing},
                        lastSubmit.data.startDate, lastSubmit.data.endDate)

\* C6: a new assignment that would take the engineer above maxCapacity is
\* always answered with the capacity warning.
C6_OverCapacityCreateWarns ==
  (Submitted /\ lastSubmit.editing = 0
     /\ ProposedTotal > SrvMaxCapacity(lastSubmit.data.engineerId))
    => lastSubmit.alert = "capacity"

C8_OverCapacityUpdateWarns ==
  (Submitted /\ lastSubmit.editing # 0 /\ capacityInfo # Null
     /\ ProposedTotal > SrvMaxCapacity(lastSubmit.data.engineerId))
    => lastSubmit.alert = "capacity"

\* C9: on no day does the stored allocation of an engineer exceed
\* maxCapacity.
C9_NoOverAllocation ==
  \A e \in Ids(SrvEngineers), d \in Days :
    computeAllocation(e, srvAssignments, d, d) <= SrvMaxCapacity(e)

DatesGiven ==
  lastSubmit.data.startDate # NoDate /\ lastSubmit.data.endDate # NoDate

DateRejected == "endDate after startDate" \in lastSubmit.errors

\* C10 as stated: a submission is rejected on date grounds exactly when
\* its end date is before its start date.
C10_RejectedIffEndBeforeStart ==
  (lastSubmit.type = "submit" /\ DatesGiven) =>
    /\ DateRejected <=> lastSubmit.data.endDate < lastSubmit.data.startDate
    /\ lastSubmit.request # "none" =>
         lastSubmit.data.endDate >= lastSubmit.data.startDate

\* C10 as amended: a submission is rejected on date grounds exactly when
\* its end date is not after its start date (a single-day range included),
\* and only a submission whose end date is after its start date reaches
\* createAssignment / updateAssignment.
C10_RejectedIffEndNotAfterStart ==
  (lastSubmit.type = "submit" /\ DatesGiven) =>
    /\ DateRejected <=> lastSubmit.data.endDate <= lastSubmit.data.startDate
    /\ lastSubmit.request # "none" =>
         lastSubmit.data.endDate > lastSubmit.data.startDate

C10_Witness ==
  /\ lastSubmit.type = "submit" /\ DatesGiven
  /\ lastSubmit.data.endDate = lastSubmit.data.startDate
  /\ DateRejected /\ lastSubmit.request = "none"

\* C11: the capacity lookup is only ever issued for a date range whose end
\* date is not before its start date.
C11_LookupOnlyForValidRange ==
  \A l \in lookups : l.endDate >= l.startDate

\* C14: a capacity lookup that fails leaves the form accounting with zero
\* allocation, that is with available = maxCapacity of the engineer.
C14_FailedLookupMeansZeroAllocation ==
  [][\A l \in lookups :
       (CapacityResponse(l, FALSE) /\ l.engineer)
         => capacityInfo'.available = SrvMaxCapacity(l.engineerId)]_vars

MutationInvoked ==
  \/ submitCall # Null
  \/ deleteCalls # {}
  \/ lastSubmit.type = "submit" /\ lastSubmit.request # "none"
  \/ state.isCreating \/ state.isUpdating \/ state.isDeleting

\* C13: createAssignment, updateAssignment and deleteAssignment are invoked
\* only while the signed-in user's role is manager; an engineer on the
\* assignments page reaches none of them.
C13_MutationsByManagersOnly ==
  MutationInvoked => authUser.role = "manager"

C13_Witness ==
  /\ authUser.role = "manager"
  /\ deleteCalls # {}

\* C15: every payload handed to createAssignment or updateAssignment has
\* allocationPercentage in 1..100 and non-empty engineerId, projectId,
\* startDate, endDate and role.
C15_PayloadWellFormed ==
  submitCall # Null =>
    /\ submitCall.data.allocationPercentage \in 1..100
    /\ submitCall.data.engineerId # ""
    /\ submitCall.data.projectId # ""
    /\ submitCall.data.startDate # NoDate
    /\ submitCall.data.endDate # NoDate
    /\ submitCall.data.role # ""

C15_Witness ==
  /\ submitCall # Null /\ submitCall.stage = "request"
  /\ submitCall.op = "update"
  /\ submitCall.data.allocationPercentage = 60

\* The mutation call the last step settled is still awaiting its engineer
\* reload.
ReloadPending ==
  IF lastSubmit.op = "delete"
    THEN [id |-> lastSubmit.id, stage |-> "reload"] \in deleteCalls
    ELSE submitCall # Null /\ submitCall.stage = "reload" /\ submitCall.op = lastSubmit.op

\* C19: a successful createAssignment / updateAssignment / deleteAssignment
\* dispatches its *_SUCCESS and then LOAD_ENGINEERS_START, and the engineer
\* reload is under way; a failed one dispatches its *_FAILURE with the
\* error message and nothing else, issues no reload and rethrows.
C19_ReloadAfterSuccessOnly ==
  lastSubmit.type = "call" =>
    LET d == lastSubmit.dispatched
        prefix == CASE lastSubmit.op = "create" -> "CREATE_ASSIGNMENT"
                    [] lastSubmit.op = "update" -> "UPDATE_ASSIGNMENT"
                    [] lastSubmit.op = "delete" -> "DELETE_ASSIGNMENT"
    IN IF lastSubmit.ok
         THEN /\ Len(d) = 2
              /\ d[1].type = prefix \o "_SUCCESS"
              /\ d[2].type = "LOAD_ENGINEERS_START"
              /\ state.engineersLoading
              /\ ReloadPending
              /\ ~lastSubmit.rethrown
         ELSE /\ d = <<[type |-> prefix \o "_FAILURE", payload |-> ErrorMessage]>>
              /\ state.assignmentsError = ErrorMessage
              /\ ~ReloadPending
              /\ lastSubmit.rethrown

C19_Witness ==
  /\ lastSubmit.type = "call" /\ lastSubmit.op = "create" /\ lastSubmit.ok
  /\ state.engineersLoading

\* ======================================================================
\* Properties of the reducer (checked under SpecReducer)
\* ======================================================================

\* C20: CREATE_ASSIGNMENT_SUCCESS puts the new assignment at the front and
\* keeps the others; UPDATE_ASSIGNMENT_SUCCESS replaces the entries with the
\* payload's _id and keeps length and order; DELETE_ASSIGNMENT_SUCCESS
\* removes the entries with the given _id and no other; engineers, projects
\* and utilizationData are left alone.
C20_ReducerChangesListExactly ==
  view.page = "appReducer" =>
    LET before == view.before.assignments
        after == state.assignments
        payload == view.action.payload
    IN /\ view.action.type = "CREATE_ASSIGNMENT_SUCCESS" =>
            /\ Len(after) = Len(before) + 1
            /\ after[1] = payload
            /\ \A i \in 1..Len(before) : after[i + 1] = before[i]
       /\ view.action.type = "UPDATE_ASSIGNMENT_SUCCESS" =>
            /\ Len(after) = Len(before)
            /\ \A i \in 1..Len(before) :
                 after[i] = IF before[i]._id = payload._id THEN payload
                            ELSE before[i]
            /\ (\A i \in 1..Len(before) : before[i]._id # payload._id)
                 => after = before
       /\ view.action.type = "DELETE_ASSIGNMENT_SUCCESS" =>
            /\ \A i \in 1..Len(after) : after[i]._id # payload
            /\ after = SelectSeq(before, LAMBDA a : a._id # payload)
       /\ state.engineers = view.before.engineers
       /\ state.projects = view.before.projects
       /\ state.utilizationData = view.before.utilizationData

C20_Witness ==
  /\ view.page = "appReducer"
  /\ view.action.type = "DELETE_ASSIGNMENT_SUCCESS"
  /\ Len(view.before.assignments) = 3
  /\ Len(state.assignments) = 1
  /\ state.engineers # <<>> /\ state.projects # <<>>

\* ======================================================================
\* Properties of authentication and routing (checked under SpecAuth)
\* ======================================================================

ProtectedPages ==
  {"ManagerDashboard", "EngineerDashboard", "EngineersPage", "ProjectsPage",
   "AssignmentsPage", "AnalyticsPage", "ProfilePage"}

\* C16: the dashboard layout and the pages nested in it are on screen only
\* when isAuthenticated is true and isLoading is false; otherwise a
\* protected route gives the spinner (isLoading) or a redirect to /login.
C16_ProtectedContentOnlyWhenAuthenticated ==
  view.page = "route" =>
    /\ (view.layout \/ view.outcome \in ProtectedPages)
         => (authState.isAuthenticated /\ ~authState.isLoading)
    /\ view.requested \in {"/"} \cup ProtectedPaths =>
         /\ authState.isLoading => view.outcome = "spinner"
         /\ (~authState.isLoading /\ ~authState.isAuthenticated) =>
              /\ view.redirects # <<>>
              /\ view.redirects[1] = [from |-> view.requested, to |-> "/login"]
              /\ view.outcome = "LoginPage"

C16_Witness ==
  /\ view.page = "route" /\ view.requested = "/assignments"
  /\ view.outcome = "AssignmentsPage" /\ view.layout
  /\ authState.isAuthenticated

\* C17: the Engineers and Analytics pages are on screen only for an
\* authenticated manager; an authenticated engineer who requests either
\* route is redirected to /dashboard; the sidebar of an engineer lists
\* neither entry.
C17_ManagerPagesForManagersOnly ==
  view.page = "route" =>
    /\ view.outcome \in {"EngineersPage", "AnalyticsPage"} =>
         (authState.isAuthenticated /\ authState.user.role = "manager")
    /\ (authState.isAuthenticated /\ ~authState.isLoading
          /\ authState.user.role = "engineer"
          /\ view.requested \in {"/engineers", "/analytics"}) =>
         /\ view.redirects = <<[from |-> view.requested, to |-> "/dashboard"]>>
         /\ view.path = "/dashboard"
         /\ view.outcome = "EngineerDashboard"
    /\ authState.user.role = "engineer" =>
         view.navigation \cap {"/engineers", "/analytics"} = {}

C17_Witness ==
  /\ view.page = "route" /\ view.requested = "/analytics"
  /\ authState.isAuthenticated /\ authState.user.role = "engineer"
  /\ view.path = "/dashboard"
  /\ view.navigation # {}

ProfileRequested == \E c \in authCalls : c.op = "profile"

ProfileLoaded ==
  /\ authState.isAuthenticated /\ ~authState.isLoading
  /\ authState.user \in SessionUsers
  /\ authState.user._id = localStorage.auth_token

SessionEnded ==
  /\ ~authState.isAuthenticated /\ ~authState.isLoading
  /\ authState.user = NoUser
  /\ authState.error = SessionExpired
  /\ localStorage = ClearedStorage

\* C18: with a token stored at startup the provider dispatches
\* LOAD_USER_START and requests the profile, and eventually is either
\* authenticated with the fetched profile or unauthenticated with the
\* 'Session expired' error and the stored token and user data removed;
\* with no token stored, startup makes no profile request and leaves the
\* initial unauthenticated state.
C18_StartupRestoresOrEndsSession ==
  /\ [](~startup.token => ~ProfileRequested)
  /\ [][(~startup.token /\ ~startup.done /\ startup'.done)
          => (authState' = authInitialState /\ authCalls' = {})]_vars
  /\ (startup.token /\ ~startup.done)
       ~> (authState.isLoading /\ ProfileRequested)
  /\ (startup.token /\ ~startup.done) ~> (ProfileLoaded \/ SessionEnded)

C18_Witness ==
  /\ startup.token /\ startup.done
  /\ SessionEnded

\* ======================================================================
\* Properties of concurrent creations (checked under SpecRace)
\* ======================================================================

\* The allocation stored for the engineer on one day.
StoredAllocation(engineerId, day) ==
  computeAllocation(engineerId, srvAssignments, day, day)

Posted(p) == peers[p].call.stage \in {"request", "saved"}

\* C12: each session's capacity check compares the allocation with the
\* availability the backend reported when that session looked it up, not
\* with what is stored when the assignment is posted; two creations for the
\* same engineer can therefore both pass and both be stored with a summed
\* allocation above maxCapacity (the state C12_Witness).
C12_CheckedAgainstOwnSnapshot ==
  \A p \in Clients :
    /\ peers[p].capacityInfo # Null =>
         peers[p].capacityInfo.available \in
           {0, Max(0, SrvMaxCapacity("e1")
                        - computeAllocation("e1", peers[p].snapshot,
                                            peers[p].values.startDate,
                                            peers[p].values.endDate))}
    /\ (Posted(p) /\ peers[p].call.info # Null) =>
         peers[p].call.data.allocationPercentage <= peers[p].call.info.available

C12_Witness ==
  /\ \A p \in Clients :
       /\ peers[p].call.stage = "saved"
       /\ peers[p].call.info # Null
       /\ peers[p].call.data.allocationPercentage <= peers[p].call.info.available
  /\ \E d \in Days : StoredAllocation("e1", d) > SrvMaxCapacity("e1")

\* ======================================================================
\* Properties of the assignment efficiency (checked under SpecAnalytics)
\* ======================================================================

\* The engineer an assignment refers to, by _id.
AssignedEngineer(assignment) ==
  CHOOSE e \in Range(state.engineers) : e._id = assignment.engineerId._id

AssignedProject(assignment) ==
  CHOOSE p \in Range(state.projects) : p._id = assignment.projectId._id

SameFraction(u, v) == u.num * v.den = v.num * u.den

\* C21: for every assignment whose engineer and project are loaded, the
\* skill-match score is 100 * (required skills the assigned engineer has) /
\* (required skills), and 0 when no skill is required, the engineer being
\* the one whose _id the assignment carries.
C21_SkillMatchOfAssignedEngineer ==
  view.page = "assignmentEfficiency" =>
    \A i \in 1..Len(state.assignments) :
      LET a == state.assignments[i]
      IN ((\E e \in Range(state.engineers) : e._id = a.engineerId._id)
          /\ (\E p \in Range(state.projects) : p._id = a.projectId._id)) =>
           LET required == AssignedProject(a).requiredSkills
               has == Len(SelectSeq(required,
                                    LAMBDA sk : sk \in AssignedEngineer(a).skills))
           IN SameFraction(view.rows[i].skillMatch,
                           IF Len(required) = 0 THEN Number(0)
                           ELSE [num |-> 100 * has, den |-> Len(required)])

\* ======================================================================
\* Further properties of the assignments page (checked under Spec)
\* ======================================================================

\* C22: editingAssignment is non-null only while the edit dialog is open,
\* however dialogs are dismissed, so a submission of the 'Create New
\* Assignment' dialog never asks for updateAssignment.
C22_CreateDialogNeverUpdates ==
  /\ editingAssignment # Null => isEditDialogOpen
  /\ (lastSubmit.type = "submit" /\ isCreateDialogOpen)
       => lastSubmit.request # "update"

\* ======================================================================
\* Properties of the capacity lookups (checked under SpecLookup)
\* ======================================================================

\* C23: when a new assignment is submitted, a non-null capacityInfo is the
\* answer to the lookup for the engineer and date range in the form,
\* whatever the order in which the lookups completed.
C23_CapacityInfoOfCurrentSelection ==
  \A p \in DOMAIN peers :
    (peers[p].call # NoCall /\ peers[p].call.info # Null) =>
      peers[p].call.info.lookup =
        [engineerId |-> peers[p].call.data.engineerId,
         startDate |-> peers[p].call.data.startDate,
         endDate |-> peers[p].call.data.endDate]

\* ======================================================================
\* Properties of overlapping requests (checked under SpecSync)
\* ======================================================================

Outstanding(ops) == \E r \in loads : r.op \in ops

\* C24: once no request is outstanding, the local assignments list holds
\* each stored assignment exactly once.
C24_ListMatchesStoredWhenQuiet ==
  loads = {} =>
    /\ Range(state.assignments) = srvAssignments
    /\ Cardinality(Ids(state.assignments)) = Len(state.assignments)

\* C25: each busy flag is true exactly while a matching request is
\* outstanding.
C25_BusyFlagsMatchRequests ==
  /\ state.isCreating <=> Outstanding({"create", "createProject"})
  /\ state.isDeleting <=> Outstanding({"delete"})
  /\ state.assignmentsLoading <=> Outstanding({"loadAssignments"})
  /\ state.engineersLoading <=> Outstanding({"loadEngineers"})

====
